---- MODULE Spec2Model ----
(***************************************************************************)
(* A model of static/js/main.js, the client-side script of the blog CMS.   *)
(* Each initializer and helper of the script is modelled as its own small  *)
(* state machine over the part of the browser it touches (timer table,     *)
(* DOM classes and styles, console, clipboard promise).  The components    *)
(* share no state in the script, so each has its own specification; the    *)
(* variables of the other components stay at their idle values.            *)
(***************************************************************************)
EXTENDS Integers, Sequences, FiniteSets, TLC

VARIABLES
    \* ---- debounce (main.js 342-352) ----
    dNow,       \* the clock, in units of the timer resolution
    dTimers,    \* the browser's table of pending timers
    dNextId,    \* the next handle setTimeout returns
    timeout,    \* the `timeout` variable of each debounce closure (0: undefined)
    dWait,      \* the `wait` argument of each debounce(func, wait)
    calls,      \* history: the calls of the debounced functions, in order
    invoked,    \* history: the invocations of func
    \* ---- timeAgo (main.js 319-334) ----
    taNow,      \* new Date(), in ms
    taDiff,     \* now - past, in ms
    taResult,   \* the string returned ("" before the call)
    \* ---- initAutoHideAlerts (main.js 253-270) ----
    aPc,        \* "loading" until DOMContentLoaded has run the initializer
    aNow,       \* the clock, in ms
    aTimers,    \* the browser's table of pending timers
    aNextId,    \* the next handle setTimeout returns
    aBootstrap, \* what bootstrap.Alert.getOrCreateInstance does on this page
    aPermanent, \* per alert: whether it carries the class alert-permanent
    aAlert,     \* per alert: its style, and whether it is still in the document
    aLog,       \* history: per alert what its timer callback did, and when
    \* ---- copyToClipboard (main.js 359-366) ----
    cClipboard, \* what navigator.clipboard is on this page
    cCalls,     \* the invocations of copyToClipboard, in order
    \* ---- initSearchEnhancement (main.js 46-65) ----
    sPc,        \* "loading" until the initializer has run
    sForm,      \* per search input: the form it sits in (0: none)
    sValue,     \* per search input: its value, a sequence of characters
    sListeners, \* the submit listeners registered, in order: <<form, input>>
    sActive,    \* document.activeElement (0: no search input)
    sSubmit,    \* history: the last submit event dispatched
    \* ---- initCommentSystem, reply toggles (main.js 89-109) ----
    rPc,        \* "loading" until the initializer has run
    rForms,     \* the comment ids X for which an element reply-form-X exists
    rHasInput,  \* per form: whether it holds an input[name="content"]
    rClass,     \* per form: its classList
    rInitClass, \* history: per form, its classList at page load
    rClicks,    \* history: per comment id, the clicks on its reply button
    rFocus,     \* history: per comment id, the focus() calls made on its input
    rActive,    \* the form whose input is document.activeElement (0: none)
    \* ---- initScrollToTop (main.js 198-243) ----
    scPc,       \* "loading" until the initializer has run
    scrollY,    \* window.scrollY
    scPending,  \* a scroll event is queued
    scSmooth,   \* a smooth scroll to the top is under way
    scDisplay,  \* button.style.display ("absent" before the button exists)
    scOpacity,  \* button.style.opacity, in tenths
    scLast,     \* history: the last event handled
    \* ---- initCommentSystem, character counters (main.js 111-139) ----
    tPc,        \* "loading" until the initializer has run
    tAttr,      \* per textarea: its maxlength attribute (-1: absent)
    tLen,       \* per textarea: value.length
    tNext,      \* per textarea: the element siblings that follow it
    tServed,    \* history: per textarea, those siblings at page load
    tMaxLength, \* per textarea: the maxLength its listener closed over
    tCreated,   \* history: per textarea, the counters the initializer created
    tInputs     \* history: per textarea, whether an input event was handled

debVars == <<dNow, dTimers, dNextId, timeout, dWait, calls, invoked>>
taVars == <<taNow, taDiff, taResult>>
aVars == <<aPc, aNow, aTimers, aNextId, aBootstrap, aPermanent, aAlert, aLog>>
cVars == <<cClipboard, cCalls>>
sVars == <<sPc, sForm, sValue, sListeners, sActive, sSubmit>>
rVars == <<rPc, rForms, rHasInput, rClass, rInitClass, rClicks, rFocus, rActive>>
scVars == <<scPc, scrollY, scPending, scSmooth, scDisplay, scOpacity, scLast>>
tVars == <<tPc, tAttr, tLen, tNext, tServed, tMaxLength, tCreated, tInputs>>

vars == <<debVars, taVars, aVars, cVars, sVars, rVars, scVars, tVars>>

(***************************************************************************)
(* A component that a specification leaves out stays in one idle state.    *)
(***************************************************************************)
DebounceIdle ==
    /\ dNow = 0 /\ dTimers = {} /\ dNextId = 1 /\ timeout = <<>>
    /\ dWait = <<>> /\ calls = <<>> /\ invoked = {}

TimeAgoIdle == taNow = 0 /\ taDiff = 0 /\ taResult = ""

AlertsIdle ==
    /\ aPc = "idle" /\ aNow = 0 /\ aTimers = {} /\ aNextId = 1
    /\ aBootstrap = "instance"
    /\ aPermanent = <<>> /\ aAlert = <<>> /\ aLog = <<>>

ClipboardIdle == cClipboard = "granted" /\ cCalls = <<>>

SearchIdle ==
    /\ sPc = "idle" /\ sForm = <<>> /\ sValue = <<>> /\ sListeners = <<>>
    /\ sActive = 0 /\ sSubmit = <<>>

ReplyIdle ==
    /\ rPc = "idle" /\ rForms = {} /\ rHasInput = <<>> /\ rClass = <<>>
    /\ rInitClass = <<>> /\ rClicks = <<>> /\ rFocus = <<>> /\ rActive = 0

ScrollIdle ==
    /\ scPc = "idle" /\ scrollY = 0 /\ scPending = FALSE /\ scSmooth = FALSE
    /\ scDisplay = "absent" /\ scOpacity = 0 /\ scLast = "none"

CounterIdle ==
    /\ tPc = "idle" /\ tAttr = <<>> /\ tLen = <<>> /\ tNext = <<>>
    /\ tServed = <<>>
    /\ tMaxLength = <<>> /\ tCreated = <<>> /\ tInputs = <<>>

Max(S) == CHOOSE x \in S : \A y \in S : y <= x

(***************************************************************************)
(* The browser's timers.  setTimeout(cb, delay) enters a timer that may    *)
(* run at any time from now + delay on; clearTimeout(id) removes the       *)
(* timer with that handle and does nothing for any other value.            *)
(***************************************************************************)
SetTimeout(timers, id, due, cb) ==
    timers \cup {[id |-> id, due |-> due, cb |-> cb]}

ClearTimeoutNoop(timers, id) == timers

ClearTimeout(timers, id) == {t \in timers : t.id # id}

(***************************************************************************)
(* debounce                                                                *)
(***************************************************************************)
Debouncers == {1, 2}
ArgValues == {"a", "b"}
Waits == {1, 2}
MaxTime == 3
MaxCalls == 3

\* `let timeout` is declared inside debounce: one variable per closure.
TimeoutSlotShared(d) == 1

TimeoutSlot(d) == d

DebounceInit ==
    /\ dNow = 0
    /\ dTimers = {}
    /\ dNextId = 1
    /\ timeout = [s \in Debouncers |-> 0]
    \* the two functions are interchangeable: the first gets the smaller wait
    /\ dWait \in {w \in [Debouncers -> Waits] : w[1] <= w[2]}
    /\ calls = <<>>
    /\ invoked = {}
    /\ TimeAgoIdle /\ AlertsIdle /\ ClipboardIdle /\ SearchIdle
    /\ ReplyIdle /\ ScrollIdle /\ CounterIdle

notDebounce == <<taVars, aVars, cVars, sVars, rVars, scVars, tVars>>

\* Whether the timer armed by the latest call of d has not run yet.
TimerPending(d) == \E t \in dTimers : t.cb.deb = d

\* executedFunction(...args) of the closure d
ExecutedFunction(d, a) ==
    /\ Len(calls) < MaxCalls
    /\ LET slot == TimeoutSlot(d)
           cleared == ClearTimeout(dTimers, timeout[slot])
           later == [deb |-> d, args |-> a, call |-> Len(calls) + 1]
       IN  /\ dTimers' = SetTimeout(cleared, dNextId, dNow + dWait[d], later)
           /\ timeout' = [timeout EXCEPT ![slot] = dNextId]
    /\ dNextId' = dNextId + 1
    /\ calls' = Append(calls, [deb |-> d, args |-> a, at |-> dNow,
                               fresh |-> ~TimerPending(d)])
    /\ UNCHANGED <<dNow, dWait, invoked, notDebounce>>

\* The timer callback `later` of a pending timer that is due.
Later(t) ==
    /\ t \in dTimers
    /\ t.due <= dNow
    /\ dTimers' = ClearTimeout(dTimers \ {t}, timeout[TimeoutSlot(t.cb.deb)])
    /\ invoked' = invoked \cup {[deb |-> t.cb.deb, args |-> t.cb.args,
                                 call |-> t.cb.call, at |-> dNow]}
    /\ UNCHANGED <<dNow, dNextId, timeout, dWait, calls, notDebounce>>

DebounceTick ==
    /\ dNow < MaxTime
    /\ dNow' = dNow + 1
    /\ UNCHANGED <<dTimers, dNextId, timeout, dWait, calls, invoked, notDebounce>>

DebounceNext ==
    \/ \E d \in Debouncers, a \in ArgValues : ExecutedFunction(d, a)
    \/ \E t \in dTimers : Later(t)
    \/ DebounceTick

SpecDebounce == DebounceInit /\ [][DebounceNext]_vars

(***************************************************************************)
(* Bursts of calls, read off the history.  A burst is a maximal run of     *)
(* calls of one debounced function in which no call starts a new burst;    *)
(* a burst is named by the index of its first call.                        *)
(***************************************************************************)
PrevCall(i) ==
    LET S == {j \in 1..(i - 1) : calls[j].deb = calls[i].deb}
    IN  IF S = {} THEN 0 ELSE Max(S)

\* By arrival time: a call starts a burst when it arrives wait or more after
\* the previous call of the same function.
StartsByTime(i) ==
    \/ PrevCall(i) = 0
    \/ calls[i].at - calls[PrevCall(i)].at >= dWait[calls[i].deb]

\* By the timer: a call starts a burst when the timer armed by the previous
\* call has already run.
StartsByTimer(i) == calls[i].fresh

BurstOf(Starts(_), i) ==
    Max({j \in 1..i : calls[j].deb = calls[i].deb /\ Starts(j)})

Bursts(Starts(_)) == {i \in 1..Len(calls) : Starts(i)}

LastOf(Starts(_), b) == Max({i \in 1..Len(calls) : BurstOf(Starts, i) = b})

InvocationsOf(Starts(_), b) == {v \in invoked : BurstOf(Starts, v.call) = b}

Followed(Starts(_), b) ==
    \E c \in Bursts(Starts) : c > b /\ calls[c].deb = calls[b].deb

\* func runs at most once for the burst, not before wait has elapsed since
\* the burst's last call, and has run exactly once when the burst is over.
OncePerBurst(Starts(_)) ==
    \A b \in Bursts(Starts) :
        /\ Cardinality(InvocationsOf(Starts, b)) <= 1
        /\ \A v \in InvocationsOf(Starts, b) :
               v.at >= calls[LastOf(Starts, b)].at + dWait[calls[b].deb]
        /\ Followed(Starts, b) => Cardinality(InvocationsOf(Starts, b)) = 1

\* C1 (as claimed): for every burst of calls each arriving less than wait
\* after the previous one, func is invoked exactly once for the burst, and
\* only after wait has elapsed since the last call of the burst.
C1_OncePerTimedBurst == OncePerBurst(StartsByTime)

\* C1 (amended): for every burst of calls each made while the timer armed by
\* the previous call is still pending, func is invoked exactly once for the
\* burst, and only after wait has elapsed since the last call of the burst;
\* a call arriving less than wait after the previous one is always such a
\* call, never the start of a new burst.
C1_OncePerPendingBurst ==
    /\ OncePerBurst(StartsByTimer)
    /\ \A i \in 1..Len(calls) : StartsByTimer(i) => StartsByTime(i)

\* C1, witness: a burst of two calls, invoked once, and followed by a later
\* burst.
C1_Witness ==
    \E b \in Bursts(StartsByTimer) :
        /\ LastOf(StartsByTimer, b) > b
        /\ Followed(StartsByTimer, b)
        /\ Cardinality(InvocationsOf(StartsByTimer, b)) = 1

\* Every invocation is that of the last call of its burst, with that call's
\* arguments.
C10_LastArgs ==
    \A v \in invoked :
        /\ v.call = LastOf(StartsByTime, BurstOf(StartsByTime, v.call))
        /\ v.args = calls[v.call].args
        /\ v.deb = calls[v.call].deb

ActsOn(d) ==
    \/ Len(calls') > Len(calls) /\ calls'[Len(calls')].deb = d
    \/ \E v \in invoked' \ invoked : v.deb = d

C10_Independent ==
    \A d \in Debouncers :
        ~ActsOn(d) =>
            /\ {t \in dTimers' : t.cb.deb = d} = {t \in dTimers : t.cb.deb = d}
            /\ timeout'[d] = timeout[d]

\* C10: the invocation that ends a burst receives the arguments of the last
\* call of the burst (no earlier call of the burst is ever invoked), and a
\* call or a timer callback of one debounced function leaves the pending
\* timer and the timer handle of every other debounced function as they are.
C10_LastArgsIndependent == []C10_LastArgs /\ [][C10_Independent]_vars

\* C10, witness: a burst of two calls with different arguments has been
\* invoked, and the other debounced function was called before that
\* invocation.
C10_Witness ==
    \E v \in invoked :
        /\ BurstOf(StartsByTime, v.call) < v.call
        /\ calls[BurstOf(StartsByTime, v.call)].args # v.args
        /\ \E i \in 1..Len(calls) : calls[i].deb # v.deb /\ calls[i].at <= v.at

(***************************************************************************)
(* timeAgo                                                                 *)
(***************************************************************************)
MsPerDay == 24 * 60 * 60 * 1000
MaxDays == 10

\* Elapsed times around every multiple of a second, a minute, an hour and a
\* day that the function can tell apart.
Around(unit, n) == {unit * q + r : q \in 0..n, r \in {-1000, -1, 0, 1, 999}}

TimeAgoDiffs ==
    {d \in Around(1000, 61) \cup Around(60 * 1000, 61)
             \cup Around(60 * 60 * 1000, 25) \cup Around(MsPerDay, MaxDays) :
        d >= 0}

TimeAgoNows == {20 * MsPerDay, 20 * MsPerDay + 12 * 60 * 60 * 1000}

\* Date.prototype.toLocaleDateString: a string that names the calendar day
\* the instant falls on, and nothing finer.
ToLocaleDateString(ms) == "day " \o ToString(ms \div MsPerDay)

TimeAgoPluralFromOne(now, diffMs) ==
    LET past == now - diffMs
        diffSecs == diffMs \div 1000
        diffMins == diffSecs \div 60
        diffHours == diffMins \div 60
        diffDays == diffHours \div 24
    IN  IF diffSecs < 60 THEN "just now"
        ELSE IF diffMins < 60 THEN
            ToString(diffMins) \o " minute" \o (IF diffMins >= 1 THEN "s" ELSE "") \o " ago"
        ELSE IF diffHours < 24 THEN
            ToString(diffHours) \o " hour" \o (IF diffHours >= 1 THEN "s" ELSE "") \o " ago"
        ELSE IF diffDays < 7 THEN
            ToString(diffDays) \o " day" \o (IF diffDays >= 1 THEN "s" ELSE "") \o " ago"
        ELSE ToLocaleDateString(past)

\* timeAgo(date), with now = new Date() and diffMs = now - new Date(date).
\* Math.floor of a quotient is \div, which rounds down as well.
TimeAgo(now, diffMs) ==
    LET past == now - diffMs
        diffSecs == diffMs \div 1000
        diffMins == diffSecs \div 60
        diffHours == diffMins \div 60
        diffDays == diffHours \div 24
    IN  IF diffSecs < 60 THEN "just now"
        ELSE IF diffMins < 60 THEN
            ToString(diffMins) \o " minute" \o (IF diffMins > 1 THEN "s" ELSE "") \o " ago"
        ELSE IF diffHours < 24 THEN
            ToString(diffHours) \o " hour" \o (IF diffHours > 1 THEN "s" ELSE "") \o " ago"
        ELSE IF diffDays < 7 THEN
            ToString(diffDays) \o " day" \o (IF diffDays > 1 THEN "s" ELSE "") \o " ago"
        ELSE ToLocaleDateString(past)

TimeAgoInit ==
    /\ taNow \in TimeAgoNows
    /\ taDiff \in TimeAgoDiffs
    /\ taResult = ""
    /\ DebounceIdle /\ AlertsIdle /\ ClipboardIdle /\ SearchIdle
    /\ ReplyIdle /\ ScrollIdle /\ CounterIdle

notTimeAgo == <<debVars, aVars, cVars, sVars, rVars, scVars, tVars>>

TimeAgoCall ==
    /\ taResult = ""
    /\ taResult' = TimeAgo(taNow, taDiff)
    /\ UNCHANGED <<taNow, taDiff, notTimeAgo>>

TimeAgoNext == TimeAgoCall

SpecTimeAgo == TimeAgoInit /\ [][TimeAgoNext]_vars

\* The string the claim names for an elapsed time of d ms, each count taken
\* from d directly.
Counted(n, unit) ==
    ToString(n) \o " " \o unit \o (IF n = 1 THEN "" ELSE "s") \o " ago"

\* C2: for every non-negative elapsed time d, timeAgo returns 'just now'
\* below 60 s, 'N minute(s) ago' with N = floor(d / 60 s) for 1 <= N < 60,
\* 'N hour(s) ago' for 1 <= N < 24, 'N day(s) ago' for 1 <= N < 7, and the
\* calendar date of `date` from 7 days on; the unit is plural exactly when
\* N > 1.
C2_TimeAgoBuckets ==
    (taResult # "" /\ taDiff >= 0) =>
        LET mins == taDiff \div (60 * 1000)
            hours == taDiff \div (60 * 60 * 1000)
            days == taDiff \div MsPerDay
        IN  /\ taDiff < 60 * 1000 => taResult = "just now"
            /\ (1 <= mins /\ mins < 60) => taResult = Counted(mins, "minute")
            /\ (1 <= hours /\ hours < 24) => taResult = Counted(hours, "hour")
            /\ (1 <= days /\ days < 7) => taResult = Counted(days, "day")
            /\ taDiff >= 7 * MsPerDay =>
                   taResult = ToLocaleDateString(taNow - taDiff)

\* C2, witness: an elapsed time one millisecond short of two hours has been
\* formatted as '1 hour ago'.
C2_Witness ==
    /\ taResult # ""
    /\ taDiff = 2 * 60 * 60 * 1000 - 1
    /\ taResult = "1 hour ago"

(***************************************************************************)
(* initAutoHideAlerts                                                      *)
(***************************************************************************)
Alerts == {1, 2}
AlertDelay == 5000
FadeDelay == 300
MaxAlertTime == 5600
AlertSteps == {100, 1000}

\* bootstrap.Alert.getOrCreateInstance(alert) is the framework's, not this
\* script's: on a page that loads the framework it returns an instance; the
\* script also provides for a falsy result ("null"); on a page that does not
\* load the framework the global `bootstrap` is not defined ("undefined").
BootstrapStates == {"instance", "null", "undefined"}

AlertsInit ==
    /\ aPc = "loading"
    /\ aNow = 0
    /\ aTimers = {}
    /\ aNextId = 1
    /\ aBootstrap \in BootstrapStates
    /\ aPermanent \in [Alerts -> BOOLEAN]
    /\ aAlert = [a \in Alerts |-> [opacity |-> 1, closed |-> FALSE, inDoc |-> TRUE]]
    /\ aLog = [a \in Alerts |-> [armed |-> 0, armedAt |-> -1, firedAt |-> -1,
                                  threw |-> FALSE, removedAt |-> -1]]
    /\ DebounceIdle /\ TimeAgoIdle /\ ClipboardIdle /\ SearchIdle
    /\ ReplyIdle /\ ScrollIdle /\ CounterIdle

notAlerts == <<debVars, taVars, cVars, sVars, rVars, scVars, tVars>>

\* document.querySelectorAll('.alert:not(.alert-permanent)')
AutoHiding == {a \in Alerts : ~aPermanent[a]}

\* The rank of a among the selected alerts, from 0: the order of forEach.
Rank(a) == Cardinality({b \in AutoHiding : b < a})

RECURSIVE ArmAll(_, _)
ArmAll(timers, todo) ==
    IF todo = {} THEN timers
    ELSE LET a == CHOOSE x \in todo : \A y \in todo : x <= y
         IN  ArmAll(SetTimeout(timers, aNextId + Rank(a), aNow + AlertDelay,
                               [kind |-> "hide", alert |-> a]),
                    todo \ {a})

InitAutoHideAlerts ==
    /\ aPc = "loading"
    /\ aPc' = "ready"
    /\ aTimers' = ArmAll(aTimers, AutoHiding)
    /\ aNextId' = aNextId + Cardinality(AutoHiding)
    /\ aLog' = [a \in Alerts |->
                   IF a \in AutoHiding
                   THEN [aLog[a] EXCEPT !.armed = @ + 1, !.armedAt = aNow]
                   ELSE aLog[a]]
    /\ UNCHANGED <<aNow, aBootstrap, aPermanent, aAlert, notAlerts>>

\* The callback of the 5-second timer of alert t.cb.alert.
HideCallback(t) ==
    /\ t \in aTimers
    /\ t.cb.kind = "hide"
    /\ t.due <= aNow
    /\ LET a == t.cb.alert
           rest == aTimers \ {t}
       IN  \/ /\ aBootstrap = "undefined"
              \* `bootstrap.Alert` throws a ReferenceError: the callback ends
              /\ aLog' = [aLog EXCEPT ![a].firedAt = aNow, ![a].threw = TRUE]
              /\ aTimers' = rest
              /\ UNCHANGED <<aAlert, aNextId>>
           \/ /\ aBootstrap = "instance"
              /\ aAlert' = [aAlert EXCEPT ![a].closed = TRUE]
              /\ aLog' = [aLog EXCEPT ![a].firedAt = aNow]
              /\ aTimers' = rest
              /\ UNCHANGED aNextId
           \/ /\ aBootstrap = "null"
              /\ aAlert' = [aAlert EXCEPT ![a].opacity = 0]
              /\ aLog' = [aLog EXCEPT ![a].firedAt = aNow]
              /\ aTimers' = SetTimeout(rest, aNextId, aNow + FadeDelay,
                                       [kind |-> "remove", alert |-> a])
              /\ aNextId' = aNextId + 1
    /\ UNCHANGED <<aPc, aNow, aBootstrap, aPermanent, notAlerts>>

\* () => alert.remove()
RemoveCallback(t) ==
    /\ t \in aTimers
    /\ t.cb.kind = "remove"
    /\ t.due <= aNow
    /\ aTimers' = aTimers \ {t}
    /\ aAlert' = [aAlert EXCEPT ![t.cb.alert].inDoc = FALSE]
    /\ aLog' = [aLog EXCEPT ![t.cb.alert].removedAt = aNow]
    /\ UNCHANGED <<aPc, aNow, aNextId, aBootstrap, aPermanent, notAlerts>>

AlertsTick ==
    /\ \E dt \in AlertSteps :
           /\ aNow + dt <= MaxAlertTime
           /\ aNow' = aNow + dt
    /\ UNCHANGED <<aPc, aTimers, aNextId, aBootstrap, aPermanent, aAlert, aLog,
                   notAlerts>>

AlertsNext ==
    \/ InitAutoHideAlerts
    \/ \E t \in aTimers : HideCallback(t)
    \/ \E t \in aTimers : RemoveCallback(t)
    \/ AlertsTick

SpecAlerts == AlertsInit /\ [][AlertsNext]_vars

Dismissing(a) == aAlert[a].closed \/ aAlert[a].opacity = 0 \/ ~aAlert[a].inDoc

\* C3: every alert without alert-permanent gets a single timer, which runs
\* no sooner than 5 seconds after initAutoHideAlerts and whose run starts the
\* alert's dismissal; an alert with alert-permanent is never dismissed.
C3_TimerDismisses ==
    aPc = "ready" =>
        \A a \in Alerts :
            /\ aPermanent[a] => (aLog[a].armed = 0 /\ ~Dismissing(a))
            /\ ~aPermanent[a] =>
                   /\ aLog[a].armed = 1
                   /\ Dismissing(a) => aLog[a].firedAt >= aLog[a].armedAt + AlertDelay
                   /\ aLog[a].firedAt >= 0 =>
                          /\ aLog[a].firedAt >= aLog[a].armedAt + AlertDelay
                          /\ Dismissing(a)

\* C4: when the framework's close method is available the timer callback
\* uses it; when it is not, the callback does not fail: it sets the alert's
\* opacity to 0 and removes the alert from the document 300 ms later.
C4_DefensiveClose ==
    \A a \in Alerts :
        aLog[a].firedAt >= 0 =>
            /\ aBootstrap = "instance" => aAlert[a].closed
            /\ aBootstrap # "instance" =>
                   /\ ~aLog[a].threw
                   /\ aAlert[a].opacity = 0
                   /\ \/ \E t \in aTimers :
                             /\ t.cb = [kind |-> "remove", alert |-> a]
                             /\ t.due = aLog[a].firedAt + FadeDelay
                      \/ /\ ~aAlert[a].inDoc
                         /\ aLog[a].removedAt >= aLog[a].firedAt + FadeDelay

(***************************************************************************)
(* copyToClipboard                                                         *)
(***************************************************************************)
Texts == {"x", "y"}
MaxCopies == 3

\* navigator.clipboard is an object on a secure page and undefined
\* ("missing") elsewhere, where `navigator.clipboard.writeText` throws.
ClipboardStates == {"present", "missing"}

ClipboardInit ==
    /\ cClipboard \in ClipboardStates
    /\ cCalls = <<>>
    /\ DebounceIdle /\ TimeAgoIdle /\ AlertsIdle /\ SearchIdle
    /\ ReplyIdle /\ ScrollIdle /\ CounterIdle

notClipboard == <<debVars, taVars, aVars, sVars, rVars, scVars, tVars>>

\* The invocation as it starts: the promise the async function returns is
\* pending, nothing written, nothing logged.
Invocation(text) ==
    [text |-> text, pc |-> "try", promise |-> "pending", failed |-> FALSE,
     writes |-> 0, logs |-> 0, errors |-> 0]

\* After the await: console.log('Copied to clipboard'), and the function
\* returns.
Fulfilled(c) ==
    [c EXCEPT !.pc = "done", !.logs = @ + 1, !.promise = "resolved"]

CaughtRethrown(c) ==
    [c EXCEPT !.pc = "done", !.failed = TRUE, !.errors = @ + 1,
              !.promise = "rejected"]

\* catch (err) { console.error('Failed to copy:', err); }, and the function
\* returns.
Caught(c) ==
    [c EXCEPT !.pc = "done", !.failed = TRUE, !.errors = @ + 1,
              !.promise = "resolved"]

\* copyToClipboard(text), up to its await.
CopyToClipboard(text) ==
    /\ Len(cCalls) < MaxCopies
    /\ cCalls' = Append(cCalls,
           IF cClipboard = "missing"
           THEN Caught(Invocation(text))
           ELSE [Invocation(text) EXCEPT !.pc = "await", !.writes = @ + 1])
    /\ UNCHANGED <<cClipboard, notClipboard>>

\* The promise of writeText settles and the invocation resumes.
WriteSettles(i, ok) ==
    /\ i \in 1..Len(cCalls)
    /\ cCalls[i].pc = "await"
    /\ cCalls' = [cCalls EXCEPT ![i] = IF ok THEN Fulfilled(@) ELSE Caught(@)]
    /\ UNCHANGED <<cClipboard, notClipboard>>

ClipboardNext ==
    \/ \E text \in Texts : CopyToClipboard(text)
    \/ \E i \in 1..MaxCopies : WriteSettles(i, TRUE)
    \/ \E i \in 1..MaxCopies : WriteSettles(i, FALSE)

SpecClipboard == ClipboardInit /\ [][ClipboardNext]_vars

\* C5: the promise copyToClipboard returns never rejects and is resolved
\* once the invocation is over; a failed write is logged as one error, with
\* no success message and no second write; a successful write is logged as
\* one success message, with no error.
C5_NeverRejects ==
    \A i \in 1..Len(cCalls) :
        LET c == cCalls[i]
        IN  /\ c.promise # "rejected"
            /\ c.writes <= 1
            /\ c.pc = "done" =>
                   /\ c.promise = "resolved"
                   /\ c.failed => (c.errors = 1 /\ c.logs = 0)
                   /\ ~c.failed => (c.logs = 1 /\ c.errors = 0 /\ c.writes = 1)

\* C5, witness: one write has failed and another has succeeded, both
\* invocations over.
C5_Witness ==
    /\ \E i \in 1..Len(cCalls) :
           cCalls[i].pc = "done" /\ cCalls[i].failed /\ cCalls[i].writes = 1
    /\ \E i \in 1..Len(cCalls) : cCalls[i].pc = "done" /\ ~cCalls[i].failed

(***************************************************************************)
(* initSearchEnhancement: the submit guard                                 *)
(***************************************************************************)
SearchInputs == {1, 2}      \* in document order
SearchForms == {1, 2}
Chars == {" ", "a"}
Whitespace == {" "}
MaxValueLen == 2

Values == UNION {[1..n -> Chars] : n \in 0..MaxValueLen}

RECURSIVE TrimStart(_)
TrimStart(v) ==
    IF v # <<>> /\ Head(v) \in Whitespace THEN TrimStart(Tail(v)) ELSE v

RECURSIVE TrimEnd(_)
TrimEnd(v) ==
    IF v # <<>> /\ v[Len(v)] \in Whitespace
    THEN TrimEnd(SubSeq(v, 1, Len(v) - 1))
    ELSE v

Untrimmed(v) == v

\* String.prototype.trim
Trim(v) == TrimEnd(TrimStart(v))

SearchInit ==
    /\ sPc = "loading"
    /\ sForm \in [SearchInputs -> {0} \cup SearchForms]
    /\ sValue = [i \in SearchInputs |-> <<>>]
    /\ sListeners = <<>>
    /\ sActive = 0
    /\ sSubmit = <<>>
    /\ DebounceIdle /\ TimeAgoIdle /\ AlertsIdle /\ ClipboardIdle
    /\ ReplyIdle /\ ScrollIdle /\ CounterIdle

notSearch == <<debVars, taVars, aVars, cVars, rVars, scVars, tVars>>

\* The submit listeners that searchInputs.forEach registers: one per input
\* that has a form, on that form, in document order.
RECURSIVE Registered(_)
Registered(i) ==
    IF i \notin SearchInputs THEN <<>>
    ELSE (IF sForm[i] # 0 THEN <<[form |-> sForm[i], input |-> i]>> ELSE <<>>)
         \o Registered(i + 1)

InitSearchEnhancement ==
    /\ sPc = "loading"
    /\ sPc' = "ready"
    /\ sListeners' = Registered(1)
    /\ UNCHANGED <<sForm, sValue, sActive, sSubmit, notSearch>>

\* The user types into a search input (which has the focus then); the
\* history of the last submit event is dropped with the values it saw.
TypeValue(i, v) ==
    /\ sPc = "ready"
    /\ sValue' = [sValue EXCEPT ![i] = v]
    /\ sActive' = i
    /\ sSubmit' = <<>>
    /\ UNCHANGED <<sPc, sForm, sListeners, notSearch>>

\* The listener function(e) of one input: the event and the focus after it.
\* ev = [prevented, focused, active]
SubmitListener(l, ev) ==
    IF Trim(sValue[l.input]) = <<>>
    THEN [prevented |-> TRUE, focused |-> Append(ev.focused, l.input),
          active |-> l.input]
    ELSE ev

RECURSIVE Dispatch(_, _, _)
Dispatch(f, k, ev) ==
    IF k > Len(sListeners) THEN ev
    ELSE Dispatch(f, k + 1,
                  IF sListeners[k].form = f
                  THEN SubmitListener(sListeners[k], ev) ELSE ev)

\* A submit event on form f: its listeners run in the order registered.
Submit(f) ==
    /\ sPc = "ready"
    /\ LET ev == Dispatch(f, 1, [prevented |-> FALSE, focused |-> <<>>,
                                 active |-> sActive])
       IN  /\ sActive' = ev.active
           /\ sSubmit' = <<[form |-> f, prevented |-> ev.prevented,
                            focused |-> ev.focused, active |-> ev.active,
                            values |-> sValue]>>
    /\ UNCHANGED <<sPc, sForm, sValue, sListeners, notSearch>>

SearchNext ==
    \/ InitSearchEnhancement
    \/ \E i \in SearchInputs, v \in Values : TypeValue(i, v)
    \/ \E f \in SearchForms : Submit(f)

SpecSearch == SearchInit /\ [][SearchNext]_vars

\* Empty after trimming: nothing but whitespace.
Blank(v) == \A k \in 1..Len(v) : v[k] \in Whitespace

InForm(f) == {i \in SearchInputs : sForm[i] = f}

FocusedIn(e) == {e.focused[k] : k \in 1..Len(e.focused)}

\* C6 (as claimed): for every search input inside a form, a submit event on
\* the form is prevented if and only if that input's value is empty after
\* trimming; when it is prevented the input receives focus, and otherwise
\* the handler leaves the submit untouched.
C6_PreventedIffThisBlank ==
    \A k \in 1..Len(sSubmit) :
        LET e == sSubmit[k]
        IN  \A i \in InForm(e.form) :
                /\ e.prevented <=> Blank(e.values[i])
                /\ e.prevented => i \in FocusedIn(e)

\* C6 (amended): a submit event on a form is prevented if and only if at
\* least one search input inside the form has a value that is empty after
\* trimming; exactly the inputs of the form with such a value receive focus,
\* the last of them in document order ending up focused; a submit that is
\* not prevented moves no focus.
C6_PreventedIffSomeBlank ==
    \A k \in 1..Len(sSubmit) :
        LET e == sSubmit[k]
            blank == {i \in InForm(e.form) : Blank(e.values[i])}
        IN  /\ e.prevented <=> blank # {}
            /\ FocusedIn(e) = blank
            /\ blank # {} => e.active = Max(blank)
            /\ blank = {} => Len(e.focused) = 0

\* C6, witness: a form with two search inputs was submitted, one holding only
\* a blank, the other a word: the submit was prevented.
C6_Witness ==
    \E k \in 1..Len(sSubmit) :
        LET e == sSubmit[k]
        IN  /\ InForm(e.form) = {1, 2}
            /\ e.values[1] = <<" ">>
            /\ ~Blank(e.values[2])
            /\ e.prevented

(***************************************************************************)
(* initCommentSystem: the reply toggles                                    *)
(***************************************************************************)
CommentIds == {1, 2}        \* one .reply-btn per id, data-comment-id = id
MaxClicks == 3
FormClasses == {{}, {"d-none"}, {"mt-2"}, {"d-none", "mt-2"}}

ToggleRemoves(classList, c) == classList \ {c}

\* DOMTokenList.toggle
Toggle(classList, c) ==
    IF c \in classList THEN classList \ {c} ELSE classList \cup {c}

ReplyInit ==
    /\ rPc = "loading"
    /\ rForms \in SUBSET CommentIds
    /\ rHasInput \in [CommentIds -> BOOLEAN]
    /\ rClass \in [CommentIds -> FormClasses]
    /\ rInitClass = rClass
    /\ rClicks = [x \in CommentIds |-> 0]
    /\ rFocus = [x \in CommentIds |-> {}]
    /\ rActive = 0
    /\ DebounceIdle /\ TimeAgoIdle /\ AlertsIdle /\ ClipboardIdle
    /\ SearchIdle /\ ScrollIdle /\ CounterIdle

notReply == <<debVars, taVars, aVars, cVars, sVars, scVars, tVars>>

\* replyButtons.forEach(btn => btn.addEventListener('click', ...))
InitReplyButtons ==
    /\ rPc = "loading"
    /\ rPc' = "ready"
    /\ UNCHANGED <<rForms, rHasInput, rClass, rInitClass, rClicks, rFocus,
                   rActive, notReply>>

\* The click listener of the button with data-comment-id = x.
ReplyClick(x) ==
    /\ rPc = "ready"
    /\ rClicks[x] < MaxClicks
    /\ rClicks' = [rClicks EXCEPT ![x] = @ + 1]
    /\ IF x \in rForms
       THEN LET toggled == Toggle(rClass[x], "d-none")
                shown == "d-none" \notin toggled
            IN  /\ rClass' = [rClass EXCEPT ![x] = toggled]
                /\ IF shown /\ rHasInput[x]
                   THEN /\ rActive' = x
                        /\ rFocus' = [rFocus EXCEPT ![x] = @ \cup {rClicks'[x]}]
                   ELSE UNCHANGED <<rActive, rFocus>>
       ELSE UNCHANGED <<rClass, rActive, rFocus>>
    /\ UNCHANGED <<rPc, rForms, rHasInput, rInitClass, notReply>>

ReplyNext ==
    \/ InitReplyButtons
    \/ \E x \in CommentIds : ReplyClick(x)

SpecReply == ReplyInit /\ [][ReplyNext]_vars

Visible(x) == "d-none" \notin rClass[x]

\* A form is visible exactly when its button has been clicked an odd number
\* of times (an even number, had it started visible), only its d-none class
\* has changed, and the clicks that focused its input made it visible.
C7_Parity ==
    \A x \in rForms :
        /\ "d-none" \in rInitClass[x] => (Visible(x) <=> rClicks[x] % 2 = 1)
        /\ "d-none" \notin rInitClass[x] => (Visible(x) <=> rClicks[x] % 2 = 0)
        /\ rClass[x] \ {"d-none"} = rInitClass[x] \ {"d-none"}
        /\ \A n \in rFocus[x] :
               ("d-none" \in rInitClass[x]) <=> (n % 2 = 1)

\* A click changes no form but its own, nothing at all when its form does
\* not exist, and no focus when it hides its form.
C7_OnlyItsForm ==
    \A x \in CommentIds :
        /\ rClicks'[x] = rClicks[x] =>
               (rClass'[x] = rClass[x] /\ rFocus'[x] = rFocus[x])
        /\ (rClicks'[x] # rClicks[x] /\ x \notin rForms) =>
               (rClass' = rClass /\ rFocus' = rFocus /\ rActive' = rActive)
        /\ (rClicks'[x] # rClicks[x] /\ x \in rForms /\ ~Visible(x)') =>
               (rFocus' = rFocus /\ rActive' = rActive)

\* C7: a form that starts hidden is visible exactly when its button has been
\* clicked an odd number of times, and only its d-none class ever changes;
\* its input is focused only by clicks that make the form visible; a click
\* changes no form but reply-form-X, and nothing at all when there is no
\* element reply-form-X.
C7_ToggleItsForm == []C7_Parity /\ [][C7_OnlyItsForm]_vars

\* C7, witness: a form that started hidden has been opened, closed and opened
\* again, its input focused, while a button without a form has been clicked
\* too.
C7_Witness ==
    \E x \in rForms, y \in CommentIds \ rForms :
        /\ "d-none" \in rInitClass[x]
        /\ rClicks[x] = 3
        /\ Visible(x)
        /\ rFocus[x] = {1, 3}
        /\ rClicks[y] > 0

(***************************************************************************)
(* initScrollToTop                                                         *)
(***************************************************************************)
ScrollThreshold == 300
MaxScrollY == 600

ScrollStops ==
    {0, 1, ScrollThreshold - 1, ScrollThreshold, ScrollThreshold + 1, MaxScrollY}

ShowFromThreshold(y) == y >= ScrollThreshold

\* window.scrollY > 300
ShowButton(y) == y > ScrollThreshold

ScrollInit ==
    /\ scPc = "loading"
    /\ scrollY \in ScrollStops
    /\ scPending = FALSE
    /\ scSmooth = FALSE
    /\ scDisplay = "absent"
    /\ scOpacity = 0
    /\ scLast = "none"
    /\ DebounceIdle /\ TimeAgoIdle /\ AlertsIdle /\ ClipboardIdle
    /\ SearchIdle /\ ReplyIdle /\ CounterIdle

notScroll == <<debVars, taVars, aVars, cVars, sVars, rVars, tVars>>

\* The button is created with display: none and opacity: 0.8, and the
\* listeners are registered.
InitScrollToTop ==
    /\ scPc = "loading"
    /\ scPc' = "ready"
    /\ scDisplay' = "none"
    /\ scOpacity' = 8
    /\ scLast' = "init"
    /\ UNCHANGED <<scrollY, scPending, scSmooth, notScroll>>

\* The user scrolls: the offset changes and a scroll event is queued.
UserScroll(y) ==
    /\ y # scrollY
    /\ scrollY' = y
    /\ scPending' = TRUE
    /\ scSmooth' = FALSE
    /\ scLast' = "move"
    /\ UNCHANGED <<scPc, scDisplay, scOpacity, notScroll>>

\* One frame of the smooth scroll that scrollTo started.
SmoothStep(y) ==
    /\ scSmooth
    /\ y < scrollY
    /\ scrollY' = y
    /\ scPending' = TRUE
    /\ scSmooth' = (y > 0)
    /\ scLast' = "move"
    /\ UNCHANGED <<scPc, scDisplay, scOpacity, notScroll>>

\* The scroll listener of the window.
ScrollListener ==
    /\ scPending
    /\ scPc = "ready"
    /\ scPending' = FALSE
    /\ scDisplay' = IF ShowButton(scrollY) THEN "block" ELSE "none"
    /\ scLast' = "scroll"
    /\ UNCHANGED <<scPc, scrollY, scSmooth, scOpacity, notScroll>>

\* A scroll event dispatched before the listener is registered.
ScrollUnheard ==
    /\ scPending
    /\ scPc = "loading"
    /\ scPending' = FALSE
    /\ UNCHANGED <<scPc, scrollY, scSmooth, scDisplay, scOpacity, scLast,
                   notScroll>>

\* The click listener of the button: window.scrollTo({top: 0, smooth}).
ScrollTopClick ==
    /\ scPc = "ready"
    /\ scSmooth' = (scrollY > 0)
    /\ scLast' = "click"
    /\ UNCHANGED <<scPc, scrollY, scPending, scDisplay, scOpacity, notScroll>>

MouseEnter ==
    /\ scPc = "ready"
    /\ scOpacity' = 10
    /\ scLast' = "mouseenter"
    /\ UNCHANGED <<scPc, scrollY, scPending, scSmooth, scDisplay, notScroll>>

MouseLeave ==
    /\ scPc = "ready"
    /\ scOpacity' = 8
    /\ scLast' = "mouseleave"
    /\ UNCHANGED <<scPc, scrollY, scPending, scSmooth, scDisplay, notScroll>>

ScrollNext ==
    \/ InitScrollToTop
    \/ \E y \in ScrollStops : UserScroll(y)
    \/ \E y \in ScrollStops : SmoothStep(y)
    \/ ScrollListener
    \/ ScrollUnheard
    \/ ScrollTopClick
    \/ MouseEnter
    \/ MouseLeave

SpecScroll == ScrollInit /\ [][ScrollNext]_vars

\* Hidden when created; after a scroll event, displayed exactly above 300.
C8_AfterEvent ==
    /\ scLast = "init" => scDisplay = "none"
    /\ scLast = "scroll" =>
           /\ scrollY > 300 => scDisplay = "block"
           /\ scrollY <= 300 => scDisplay = "none"

\* A click or a hover leaves the display as it was.
C8_ClickHoverKeep ==
    scLast' \in {"click", "mouseenter", "mouseleave"} => scDisplay' = scDisplay

\* C8: the button is hidden when it is created; right after every scroll
\* event it is displayed if and only if window.scrollY is greater than 300
\* (hidden at exactly 300); a click on it or a hover over it leaves its
\* display as it was.
C8_DisplayFollowsScroll == []C8_AfterEvent /\ [][C8_ClickHoverKeep]_vars

\* C8, witness: a scroll event at exactly 300 has left a hovered button
\* hidden, while a smooth scroll that a click started is under way.
C8_Witness ==
    /\ scLast = "scroll"
    /\ scrollY = 300
    /\ scDisplay = "none"
    /\ scOpacity = 10
    /\ scSmooth

(***************************************************************************)
(* initCommentSystem: the character counters                               *)
(***************************************************************************)
Textareas == {1, 2}
DefaultMaxLength == 1000
MaxAttr == 4
MaxTyped == 5

\* The maxlength attribute as HTML allows it: absent (getAttribute gives
\* null, written -1 here) or a non-negative integer in decimal.
MaxLengthAttrs == {-1} \cup 0..MaxAttr

\* value.length after an input event: short values, and the lengths around
\* 90% of the default.
TypedLengths == 0..MaxTyped \cup {900, 901}

HelpText == [classes |-> {"form-text"}, text |-> "help"]
OldCounter == [classes |-> {"char-counter"}, text |-> ""]

\* What follows the textarea in the page as served.
ServedSiblings == {<<>>, <<HelpText>>, <<OldCounter>>, <<OldCounter, HelpText>>}

\* textarea.getAttribute('maxlength') || 1000: a string of digits is truthy,
\* "0" included; null is not.
MaxLengthOf(attr) == IF attr = -1 THEN DefaultMaxLength ELSE attr

NearLimitFrom(current, maxLength) == 10 * current >= 9 * maxLength

\* current > maxLength * 0.9.  For the integers concerned the double
\* maxLength * 0.9 lies on the same side of current as 9 * maxLength / 10.
NearLimit(current, maxLength) == 10 * current > 9 * maxLength

\* `${current}/${maxLength}`
CounterText(current, maxLength) ==
    ToString(current) \o "/" \o ToString(maxLength)

\* textarea.nextElementSibling?.classList.contains('char-counter')
HasCounter(siblings) ==
    siblings # <<>> /\ "char-counter" \in Head(siblings).classes

NewCounter(maxLength) ==
    [classes |-> {"char-counter", "text-muted", "d-block", "text-end"},
     text |-> CounterText(0, maxLength)]

CounterInit ==
    /\ tPc = "loading"
    /\ tAttr \in [Textareas -> MaxLengthAttrs]
    /\ tLen = [t \in Textareas |-> 0]
    /\ tNext \in [Textareas -> ServedSiblings]
    /\ tServed = tNext
    /\ tMaxLength = [t \in Textareas |-> 0]
    /\ tCreated = [t \in Textareas |-> 0]
    /\ tInputs = [t \in Textareas |-> FALSE]
    /\ DebounceIdle /\ TimeAgoIdle /\ AlertsIdle /\ ClipboardIdle
    /\ SearchIdle /\ ReplyIdle /\ ScrollIdle

notCounter == <<debVars, taVars, aVars, cVars, sVars, rVars, scVars>>

\* commentTextareas.forEach(textarea => ...)
InitCounters ==
    /\ tPc = "loading"
    /\ tPc' = "ready"
    /\ tMaxLength' = [t \in Textareas |-> MaxLengthOf(tAttr[t])]
    /\ tNext' = [t \in Textareas |->
                    IF HasCounter(tNext[t]) THEN tNext[t]
                    ELSE <<NewCounter(MaxLengthOf(tAttr[t]))>> \o tNext[t]]
    /\ tCreated' = [t \in Textareas |->
                       IF HasCounter(tNext[t]) THEN tCreated[t]
                       ELSE tCreated[t] + 1]
    /\ UNCHANGED <<tAttr, tLen, tServed, tInputs, notCounter>>

\* The input listener of textarea t, for a value of length n.
CounterAfterInput(counter, n, maxLength) ==
    [classes |-> IF NearLimit(n, maxLength)
                 THEN counter.classes \cup {"text-danger"}
                 ELSE counter.classes \ {"text-danger"},
     text |-> CounterText(n, maxLength)]

TextareaInput(t, n) ==
    /\ tPc = "ready"
    /\ tLen' = [tLen EXCEPT ![t] = n]
    /\ tInputs' = [tInputs EXCEPT ![t] = TRUE]
    /\ tNext' = IF HasCounter(tNext[t])
                THEN [tNext EXCEPT ![t] =
                         <<CounterAfterInput(Head(@), n, tMaxLength[t])>> \o Tail(@)]
                ELSE tNext
    /\ UNCHANGED <<tPc, tAttr, tServed, tMaxLength, tCreated, notCounter>>

CounterNext ==
    \/ InitCounters
    \/ \E t \in Textareas, n \in TypedLengths : TextareaInput(t, n)

SpecCounter == CounterInit /\ [][CounterNext]_vars

CountersIn(siblings) ==
    {k \in 1..Len(siblings) : "char-counter" \in siblings[k].classes}

\* C9: after each input event the counter next to the textarea shows
\* '<length>/<max>', max being the maxlength attribute, or 1000 when it is
\* absent, and carries text-danger if and only if the length is strictly
\* greater than 90% of max; initialization creates one counter for a
\* textarea that no char-counter follows and none for one that has it.
C9_CounterShowsLength ==
    tPc = "ready" =>
        \A t \in Textareas :
            LET max == IF tAttr[t] = -1 THEN 1000 ELSE tAttr[t]
                counter == Head(tNext[t])
            IN  /\ tCreated[t] = (IF HasCounter(tServed[t]) THEN 0 ELSE 1)
                /\ Cardinality(CountersIn(tNext[t])) = 1
                /\ HasCounter(tNext[t])
                /\ tInputs[t] =>
                       /\ counter.text = ToString(tLen[t]) \o "/" \o ToString(max)
                       /\ "text-danger" \in counter.classes
                              <=> 10 * tLen[t] > 9 * max

\* C9, witness: one textarea without maxlength holds 900 characters, its
\* created counter not in danger; the other, maxlength 0, is empty after an
\* input event, its served counter not in danger either.
C9_Witness ==
    /\ tAttr = <<-1, 0>>
    /\ tLen = <<900, 0>>
    /\ tInputs = <<TRUE, TRUE>>
    /\ tCreated = <<1, 0>>
    /\ Head(tNext[1]).text = "900/1000"
    /\ "text-danger" \notin Head(tNext[1]).classes
    /\ Head(tNext[2]).text = "0/0"
    /\ "text-danger" \notin Head(tNext[2]).classes

====
